---- MODULE Spec2Model ----
(***************************************************************************)
(* Recommendation scoring and ranking of EcoRecommendPro.                  *)
(*                                                                         *)
(* Two engines live in the repository: the stdin/stdout service            *)
(* (server/recommendation_service.py) and the storage-backed engine        *)
(* (server/recommendations.py).  Both are modelled, each from its own      *)
(* source; the storage-backed definitions carry the prefix "storage".      *)
(*                                                                         *)
(* Text is a sequence of one-character strings, so that lower(), split()   *)
(* and the substring test `keyword in text` are computed, not assumed.     *)
(* Scores are Python floats in the source; here they are exact fixed-point *)
(* numbers counted in hundredths (ScoreUnit), prices bounds in tenths and  *)
(* the eco threshold an exact fraction, so every weight of the source      *)
(* (0.6, 0.4, 0.3, 1.5, 0.8, 1.2) is represented without rounding.         *)
(***************************************************************************)
EXTENDS Integers, Sequences, FiniteSets, TLC

VARIABLES
    products,      \* candidate list: self.products / what storage returns
    user_data,     \* the user's data: age, gender, cart, wishlist, views
    user_id,       \* user id handed to the storage-backed engine (NoUserId: none)
    user_exists,   \* whether storage.getUser(user_id) finds a user
    limit,         \* requested list length
    input_data,    \* request envelope read by main()
    op,            \* the operation that has run ("none" before any)
    outcome,       \* "none" | "ok" (a list was returned) | "error" (it raised)
    preferences,   \* the profile the last personalised operation extracted
    result         \* the returned list

vars == <<products, user_data, user_id, user_exists, limit, input_data,
          op, outcome, preferences, result>>

(***************************************************************************)
(* Bounds of the model.                                                    *)
(***************************************************************************)
MaxProducts == 3
MaxLimit == 3
MaxActivity == 2
MaxScored == 2

(***************************************************************************)
(* Numbers and dictionaries.                                               *)
(***************************************************************************)
ScoreUnit == 100
PriceUnit == 10
KeywordWindow == 10
DefaultLimit == 20
DefaultAge == 25
ColdStartFetch == 100
PersonalizedFetch == 200
PersonalizedViews == 50
SearchViews == 20
NoUserId == 0

Max(a, b) == IF a >= b THEN a ELSE b
Min(a, b) == IF a <= b THEN a ELSE b

\* dict.get(key, default)
Get(d, k, default) == IF k \in DOMAIN d THEN d[k] ELSE default

\* Python truthiness of a number (None, read as 0 by the caller, is falsy too)
truthy_number(v) == v # 0

\* Python truthiness of a string
truthy_text(v) == v # <<>>

\* list[:n]
slice_to(s, n) ==
    IF n >= 0 THEN SubSeq(s, 1, Min(n, Len(s)))
    ELSE SubSeq(s, 1, Max(0, Len(s) + n))

\* {**product, 'recommendation_score': score}
with_score(product, score) ==
    [k \in DOMAIN product \cup {"recommendation_score"} |->
        IF k = "recommendation_score" THEN score ELSE product[k]]

(***************************************************************************)
(* Text: str.lower(), `k in s`, str.split().                               *)
(***************************************************************************)
UpperCase == <<"A", "B", "C", "D", "E", "F", "G", "H", "I", "J", "K", "L", "M", "N", "O", "P", "Q", "R", "S", "T", "U", "V", "W", "X", "Y", "Z">>
LowerCase == <<"a", "b", "c", "d", "e", "f", "g", "h", "i", "j", "k", "l", "m", "n", "o", "p", "q", "r", "s", "t", "u", "v", "w", "x", "y", "z">>

lower_char(c) ==
    IF \E i \in 1..Len(UpperCase) : UpperCase[i] = c
    THEN LowerCase[CHOOSE i \in 1..Len(UpperCase) : UpperCase[i] = c]
    ELSE c

lower(s) == [i \in 1..Len(s) |-> lower_char(s[i])]

\* k in s (substring containment)
contains(k, s) ==
    \E i \in 0..(Len(s) - Len(k)) : \A j \in 1..Len(k) : s[i + j] = k[j]

\* s.split(): maximal runs of non-blank characters, in order
RECURSIVE split_from(_, _, _)
split_from(s, i, word) ==
    IF i > Len(s) THEN (IF word = <<>> THEN <<>> ELSE <<word>>)
    ELSE IF s[i] = " "
         THEN (IF word = <<>> THEN <<>> ELSE <<word>>) \o split_from(s, i + 1, <<>>)
         ELSE split_from(s, i + 1, Append(word, s[i]))

split(s) == split_from(s, 1, <<>>)

(***************************************************************************)
(* list.sort(key=..., reverse=True): a stable descending sort.  keys[i] is *)
(* the key of s[i], a tuple of numbers compared lexicographically;         *)
(* elements with equal keys keep their relative order.                     *)
(***************************************************************************)
tuple_gt(a, b) ==
    \E i \in 1..Len(a) : a[i] > b[i] /\ \A j \in 1..(i - 1) : a[j] = b[j]

sort_reverse(s, keys) ==
    LET before(j, i) == \/ tuple_gt(keys[j], keys[i])
                        \/ (keys[j] = keys[i] /\ j < i)
        rank(i) == 1 + Cardinality({j \in 1..Len(s) : before(j, i)})
    IN  [r \in 1..Len(s) |-> s[CHOOSE i \in 1..Len(s) : rank(i) = r]]

(***************************************************************************)
(* Keywords of the demographic heuristics.                                 *)
(***************************************************************************)
kw_electronics == <<"e", "l", "e", "c", "t", "r", "o", "n", "i", "c", "s">>
kw_fashion == <<"f", "a", "s", "h", "i", "o", "n">>
kw_sports == <<"s", "p", "o", "r", "t", "s">>
kw_tech == <<"t", "e", "c", "h">>
kw_gadget == <<"g", "a", "d", "g", "e", "t">>
kw_portable == <<"p", "o", "r", "t", "a", "b", "l", "e">>
kw_travel == <<"t", "r", "a", "v", "e", "l">>
kw_compact == <<"c", "o", "m", "p", "a", "c", "t">>
kw_modern == <<"m", "o", "d", "e", "r", "n">>
kw_home == <<"h", "o", "m", "e">>
kw_kitchen == <<"k", "i", "t", "c", "h", "e", "n">>
kw_outdoor == <<"o", "u", "t", "d", "o", "o", "r">>
kw_garden == <<"g", "a", "r", "d", "e", "n">>
kw_family == <<"f", "a", "m", "i", "l", "y">>
kw_cooking == <<"c", "o", "o", "k", "i", "n", "g">>
kw_health == <<"h", "e", "a", "l", "t", "h">>
kw_improvement == <<"i", "m", "p", "r", "o", "v", "e", "m", "e", "n", "t">>
kw_wellness == <<"w", "e", "l", "l", "n", "e", "s", "s">>
kw_comfort == <<"c", "o", "m", "f", "o", "r", "t">>
kw_beauty == <<"b", "e", "a", "u", "t", "y">>
kw_personal_care == <<"p", "e", "r", "s", "o", "n", "a", "l", " ", "c", "a", "r", "e">>
kw_tools == <<"t", "o", "o", "l", "s">>
kw_automotive == <<"a", "u", "t", "o", "m", "o", "t", "i", "v", "e">>

\* recommendation_service.py: the keyword lists of _calculate_demographic_score
young_keywords == {kw_electronics, kw_fashion, kw_sports, kw_tech, kw_gadget}
young_text_keywords == {kw_portable, kw_travel, kw_compact, kw_modern}
middle_keywords == {kw_home, kw_kitchen, kw_outdoor, kw_garden}
middle_text_keywords == {kw_family, kw_home, kw_kitchen, kw_cooking}
older_keywords == {kw_health, kw_improvement, kw_garden, kw_wellness}
older_text_keywords == {kw_comfort, kw_health, kw_wellness, kw_garden}
female_keywords == {kw_beauty, kw_fashion, kw_home, kw_personal_care}
male_keywords == {kw_tools, kw_automotive, kw_sports, kw_tech}

\* recommendations.py: the keyword lists of its _calculate_demographic_score
storage_young_keywords == {kw_electronics, kw_fashion, kw_sports}
storage_middle_keywords == {kw_home, kw_kitchen, kw_outdoor, kw_garden}
storage_older_keywords == {kw_health, kw_improvement, kw_garden}
storage_female_keywords == {kw_beauty, kw_fashion, kw_home}
storage_male_keywords == {kw_tools, kw_automotive, kw_sports}

\* any(keyword in text for keyword in keywords)
any_in(keywords, text) == \E k \in keywords : contains(k, text)

(***************************************************************************)
(* recommendation_service.py: RecommendationEngine                         *)
(***************************************************************************)
_calculate_demographic_score(product, age, gender) ==
    LET base == (Get(product, "ecoScore", 0) * 6 * ScoreUnit) \div 10
        category == lower(Get(product, "category", <<>>))
        title == lower(Get(product, "title", <<>>))
        text == lower(Get(product, "text", <<>>))
        age_bonus ==
            IF age < 25 THEN
                (IF \E k \in young_keywords : contains(k, category) \/ contains(k, title)
                 THEN 15 * ScoreUnit ELSE 0)
                + (IF any_in(young_text_keywords, text) THEN 5 * ScoreUnit ELSE 0)
            ELSE IF age < 40 THEN
                (IF any_in(middle_keywords, category) THEN 15 * ScoreUnit ELSE 0)
                + (IF any_in(middle_text_keywords, text) THEN 5 * ScoreUnit ELSE 0)
            ELSE
                (IF any_in(older_keywords, category) THEN 15 * ScoreUnit ELSE 0)
                + (IF any_in(older_text_keywords, text) THEN 5 * ScoreUnit ELSE 0)
        gender_bonus ==
            IF gender = "female" THEN
                (IF \E k \in female_keywords : contains(k, category) \/ contains(k, title)
                 THEN 8 * ScoreUnit ELSE 0)
            ELSE IF gender = "male" THEN
                (IF \E k \in male_keywords : contains(k, category) \/ contains(k, title)
                 THEN 8 * ScoreUnit ELSE 0)
            ELSE 0
    IN  Max(0, base + age_bonus + gender_bonus)

\* mutant of keep_scored: the filter written `score >= 0`
keep_scored_nonnegative(x) == x.recommendation_score >= 0

\* the filter `if score > 0` of the ranking loops
keep_scored(x) == x.recommendation_score > 0

\* mutant of cold_start_key: the eco-score tie-break dropped
cold_start_key_score_only(x) == <<x.recommendation_score>>

\* the sort key of get_cold_start_recommendations
cold_start_key(x) == <<x.recommendation_score, Get(x, "ecoScore", 0)>>

get_cold_start_recommendations(prods, age, gender, lim) ==
    LET annotated == [i \in 1..Len(prods) |->
                        with_score(prods[i], _calculate_demographic_score(prods[i], age, gender))]
        scored_products == SelectSeq(annotated, keep_scored)
    IN  slice_to(sort_reverse(scored_products,
                              [i \in 1..Len(scored_products) |-> cold_start_key(scored_products[i])]),
                 lim)

\* the products wrapped by cart or wishlist items (`if 'product' in item`)
wrapped_products(items) ==
    LET has_product(item) == "product" \in DOMAIN item
        kept == SelectSeq(items, has_product)
    IN  [i \in 1..Len(kept) |-> kept[i].product]

RECURSIVE sum_seq(_)
sum_seq(s) == IF s = <<>> THEN 0 ELSE Head(s) + sum_seq(Tail(s))

RECURSIVE concat_all(_)
concat_all(ss) == IF ss = <<>> THEN <<>> ELSE Head(ss) \o concat_all(Tail(ss))

seq_min(s) == CHOOSE x \in {s[i] : i \in 1..Len(s)} : \A j \in 1..Len(s) : x <= s[j]
seq_max(s) == CHOOSE x \in {s[i] : i \in 1..Len(s)} : \A j \in 1..Len(s) : x >= s[j]

\* mutant of default_preferences: the upper price bound mistyped
default_preferences_narrow ==
    [preferred_categories |-> <<>>,
     price_range |-> [min |-> 0, max |-> 100 * PriceUnit],
     eco_score_threshold |-> [num |-> 0, den |-> 1],
     keywords |-> <<>>]

\* preferences = {...} as first assigned: what an empty activity pool returns
default_preferences ==
    [preferred_categories |-> <<>>,
     price_range |-> [min |-> 0, max |-> 1000 * PriceUnit],
     eco_score_threshold |-> [num |-> 0, den |-> 1],
     keywords |-> <<>>]

\* preferred_categories[category] = number of activity products of the category;
\* categories[i] is the category of the i-th activity product
category_counts(categories) ==
    [c \in {categories[i] : i \in 1..Len(categories)} |->
        Cardinality({i \in 1..Len(categories) : categories[i] = c})]

\* [min(prices) * 0.8, max(prices) * 1.2], in tenths
price_range_of(prices) ==
    [min |-> (seq_min(prices) * 8 * PriceUnit) \div 10,
     max |-> (seq_max(prices) * 12 * PriceUnit) \div 10]

\* sum(eco_scores) / len(eco_scores) * 0.8, as the fraction num / den
eco_threshold_of(eco_scores) ==
    [num |-> sum_seq(eco_scores) * 8, den |-> Len(eco_scores) * 10]

_extract_user_preferences(cart_items, wishlist_items, viewed_products) ==
    LET all_products == wrapped_products(cart_items) \o wrapped_products(wishlist_items)
                        \o viewed_products
        categories == [i \in 1..Len(all_products) |-> Get(all_products[i], "category", <<>>)]
        has_price(p) == truthy_number(Get(p, "price", 0))
        has_eco(p) == truthy_number(Get(p, "ecoScore", 0))
        priced == SelectSeq(all_products, has_price)
        scored == SelectSeq(all_products, has_eco)
        prices == [i \in 1..Len(priced) |-> priced[i].price]
        eco_scores == [i \in 1..Len(scored) |-> scored[i].ecoScore]
        words_of(p) == LET text == Get(p, "text", <<>>)
                       IN  IF truthy_text(text) THEN slice_to(split(lower(text)), KeywordWindow)
                           ELSE <<>>
    IN  IF all_products = <<>> THEN default_preferences
        ELSE [preferred_categories |-> category_counts(categories),
              price_range |-> IF prices # <<>> THEN price_range_of(prices)
                              ELSE default_preferences.price_range,
              eco_score_threshold |-> IF eco_scores # <<>> THEN eco_threshold_of(eco_scores)
                                      ELSE default_preferences.eco_score_threshold,
              keywords |-> concat_all([i \in 1..Len(all_products) |-> words_of(all_products[i])])]

\* sum(1 for keyword in preferences['keywords'] if keyword in product_text)
keyword_matches(keywords, product_text) ==
    Cardinality({i \in 1..Len(keywords) : contains(keywords[i], product_text)})

\* preferences['price_range']['min'] <= price <= preferences['price_range']['max']
price_in_range(prefs, price) ==
    /\ prefs.price_range.min <= price * PriceUnit
    /\ price * PriceUnit <= prefs.price_range.max

\* eco_score >= preferences['eco_score_threshold']
eco_meets_threshold(prefs, eco_score) ==
    eco_score * prefs.eco_score_threshold.den >= prefs.eco_score_threshold.num

_calculate_personalized_score(product, prefs, age, gender) ==
    LET demographic == (_calculate_demographic_score(product, age, gender) * 4) \div 10
        category == Get(product, "category", <<>>)
        category_part == IF category \in DOMAIN prefs.preferred_categories
                         THEN prefs.preferred_categories[category] * 8 * ScoreUnit ELSE 0
        price_part == IF price_in_range(prefs, Get(product, "price", 0))
                      THEN 20 * ScoreUnit ELSE 0
        eco_part == IF eco_meets_threshold(prefs, Get(product, "ecoScore", 0))
                    THEN 15 * ScoreUnit ELSE 0
        keyword_part == (keyword_matches(prefs.keywords, lower(Get(product, "text", <<>>)))
                         * 15 * ScoreUnit) \div 10
    IN  Max(0, demographic + category_part + price_part + eco_part + keyword_part)

\* item.get('product', {}).get('id') == product_id; None equals no product id
item_has_id(item, product_id) ==
    LET wrapped == Get(item, "product", <<>>)
    IN  "id" \in DOMAIN wrapped /\ wrapped.id = product_id

\* mutant of _is_product_in_activity: the wishlist loop forgotten
_is_product_in_cart(product_id, cart_items, wishlist_items) ==
    \E i \in 1..Len(cart_items) : item_has_id(cart_items[i], product_id)

_is_product_in_activity(product_id, cart_items, wishlist_items) ==
    \/ \E i \in 1..Len(cart_items) : item_has_id(cart_items[i], product_id)
    \/ \E i \in 1..Len(wishlist_items) : item_has_id(wishlist_items[i], product_id)

\* mutant of personalized_key: the eco-score tie-break of the cold-start key copied
personalized_key_with_eco(x) ==
    <<x.recommendation_score, Get(x, "ecoScore", 0) + Get(x, "eco_score", 0)>>

\* the sort key of get_personalized_recommendations
personalized_key(x) == <<x.recommendation_score>>

\* product['id'] of a candidate without an id raises KeyError
personalized_raises(prods) == \E i \in 1..Len(prods) : "id" \notin DOMAIN prods[i]

get_personalized_recommendations(prods, ud, lim) ==
    LET age == Get(ud, "age", DefaultAge)
        gender == Get(ud, "gender", "male")
        cart_items == Get(ud, "cart_items", <<>>)
        wishlist_items == Get(ud, "wishlist_items", <<>>)
        viewed_products == Get(ud, "viewed_products", <<>>)
        prefs == _extract_user_preferences(cart_items, wishlist_items, viewed_products)
        not_owned(p) == ~_is_product_in_activity(p.id, cart_items, wishlist_items)
        candidates == SelectSeq(prods, not_owned)
        annotated == [i \in 1..Len(candidates) |->
                        with_score(candidates[i],
                                   _calculate_personalized_score(candidates[i], prefs, age, gender))]
        scored_products == SelectSeq(annotated, keep_scored)
    IN  slice_to(sort_reverse(scored_products,
                              [i \in 1..Len(scored_products) |->
                                  personalized_key(scored_products[i])]),
                 lim)

(***************************************************************************)
(* recommendations.py: the storage-backed RecommendationEngine.  Its       *)
(* products are rows whose eco-score column is eco_score, and it indexes   *)
(* fields (product['category']) where the service uses .get: an absent     *)
(* field raises KeyError.                                                  *)
(***************************************************************************)
\* a catalogue product as the row the storage returns (column eco_score)
storage_row(p) ==
    [k \in {IF f = "ecoScore" THEN "eco_score" ELSE f : f \in DOMAIN p} |->
        IF k = "eco_score" THEN p.ecoScore ELSE p[k]]

storage_rows(prods) == [i \in 1..Len(prods) |-> storage_row(prods[i])]

\* cart and wishlist items as the storage returns them
storage_items(items) ==
    [i \in 1..Len(items) |->
        IF "product" \in DOMAIN items[i]
        THEN [k \in DOMAIN items[i] |->
                IF k = "product" THEN storage_row(items[i].product) ELSE items[i][k]]
        ELSE items[i]]

\* storage.getProducts(limit=n), storage.searchProducts(query, limit=n)
storage_fetch(rows, n) == slice_to(rows, n)

\* product['category'] raises when the row has no category
storage_demographic_raises(product) == "category" \notin DOMAIN product

storage_calculate_demographic_score(product, age, gender) ==
    LET base == (Get(product, "eco_score", 0) * 6 * ScoreUnit) \div 10
        category == lower(product.category)
        age_bonus ==
            IF age < 25 THEN
                (IF any_in(storage_young_keywords, category) THEN 10 * ScoreUnit ELSE 0)
            ELSE IF age < 40 THEN
                (IF any_in(storage_middle_keywords, category) THEN 10 * ScoreUnit ELSE 0)
            ELSE
                (IF any_in(storage_older_keywords, category) THEN 10 * ScoreUnit ELSE 0)
        gender_bonus ==
            IF gender = "female" THEN
                (IF any_in(storage_female_keywords, category) THEN 5 * ScoreUnit ELSE 0)
            ELSE IF gender = "male" THEN
                (IF any_in(storage_male_keywords, category) THEN 5 * ScoreUnit ELSE 0)
            ELSE 0
    IN  Max(0, base + age_bonus + gender_bonus)

\* the sort key of the storage-backed cold-start and search rankings
storage_score_eco_key(x) == <<x.recommendation_score, x.eco_score>>

\* get_cold_start_recommendations raises: a row without category, or a scored
\* row without eco_score reaching the sort key x['eco_score']
storage_cold_start_raises(rows, age, gender) ==
    \/ \E i \in 1..Len(rows) : storage_demographic_raises(rows[i])
    \/ \E i \in 1..Len(rows) :
           /\ "eco_score" \notin DOMAIN rows[i]
           /\ storage_calculate_demographic_score(rows[i], age, gender) > 0

storage_get_cold_start_recommendations(rows, age, gender, lim) ==
    LET annotated == [i \in 1..Len(rows) |->
                        with_score(rows[i],
                                   storage_calculate_demographic_score(rows[i], age, gender))]
        scored_products == SelectSeq(annotated, keep_scored)
    IN  slice_to(sort_reverse(scored_products,
                              [i \in 1..Len(scored_products) |->
                                  storage_score_eco_key(scored_products[i])]),
                 lim)

\* item['product'] for every cart and wishlist item
storage_wrapped_products(items) == [i \in 1..Len(items) |-> items[i].product]

\* the fields _extract_user_preferences and _calculate_personalized_score index
storage_required_fields == {"category", "price", "eco_score", "text"}

storage_extract_raises(cart_items, wishlist_items, viewed_products) ==
    \/ \E i \in 1..Len(cart_items) : "product" \notin DOMAIN cart_items[i]
    \/ \E i \in 1..Len(wishlist_items) : "product" \notin DOMAIN wishlist_items[i]
    \/ LET all_products == storage_wrapped_products(cart_items)
                           \o storage_wrapped_products(wishlist_items) \o viewed_products
       IN  \E i \in 1..Len(all_products) :
               ~(storage_required_fields \subseteq DOMAIN all_products[i])

storage_extract_user_preferences(cart_items, wishlist_items, viewed_products) ==
    LET all_products == storage_wrapped_products(cart_items)
                        \o storage_wrapped_products(wishlist_items) \o viewed_products
        categories == [i \in 1..Len(all_products) |-> all_products[i].category]
        prices == [i \in 1..Len(all_products) |-> all_products[i].price]
        eco_scores == [i \in 1..Len(all_products) |-> all_products[i].eco_score]
        words_of(p) == split(lower(p.text))
    IN  IF all_products = <<>> THEN default_preferences
        ELSE [preferred_categories |-> category_counts(categories),
              price_range |-> price_range_of(prices),
              eco_score_threshold |-> eco_threshold_of(eco_scores),
              keywords |-> concat_all([i \in 1..Len(all_products) |-> words_of(all_products[i])])]

storage_personalized_score_raises(product) ==
    ~(storage_required_fields \subseteq DOMAIN product)

storage_calculate_personalized_score(product, prefs, age, gender) ==
    LET demographic == (storage_calculate_demographic_score(product, age, gender) * 3) \div 10
        category == product.category
        category_part == IF category \in DOMAIN prefs.preferred_categories
                         THEN prefs.preferred_categories[category] * 5 * ScoreUnit ELSE 0
        price_part == IF price_in_range(prefs, product.price) THEN 15 * ScoreUnit ELSE 0
        eco_part == IF eco_meets_threshold(prefs, product.eco_score)
                    THEN 10 * ScoreUnit ELSE 0
        keyword_part == keyword_matches(prefs.keywords, lower(product.text)) * 2 * ScoreUnit
    IN  Max(0, demographic + category_part + price_part + eco_part + keyword_part)

\* _is_product_in_activity scans cart then wishlist: "yes" at the first item with
\* the id, "raise" at an item whose product has no id, "no" at the end
RECURSIVE storage_scan(_, _)
storage_scan(items, product_id) ==
    IF items = <<>> THEN "no"
    ELSE IF "id" \notin DOMAIN Head(items).product THEN "raise"
    ELSE IF Head(items).product.id = product_id THEN "yes"
    ELSE storage_scan(Tail(items), product_id)

storage_is_product_in_activity(product_id, cart_items, wishlist_items) ==
    storage_scan(cart_items \o wishlist_items, product_id)

storage_personalized_raises(rows, cart_items, wishlist_items, viewed_products) ==
    \/ storage_extract_raises(cart_items, wishlist_items, viewed_products)
    \/ \E i \in 1..Len(rows) :
          \/ "id" \notin DOMAIN rows[i]
          \/ LET owned == storage_is_product_in_activity(rows[i].id, cart_items, wishlist_items)
             IN  \/ owned = "raise"
                 \/ owned = "no" /\ storage_personalized_score_raises(rows[i])

\* the body of get_personalized_recommendations once the user was found
storage_rank_personalized(rows, user, cart_items, wishlist_items, viewed_products, lim) ==
    LET prefs == storage_extract_user_preferences(cart_items, wishlist_items, viewed_products)
        not_owned(p) == storage_is_product_in_activity(p.id, cart_items, wishlist_items) = "no"
        candidates == SelectSeq(rows, not_owned)
        annotated == [i \in 1..Len(candidates) |->
                        with_score(candidates[i],
                                   storage_calculate_personalized_score(candidates[i], prefs,
                                                                        user.age, user.gender))]
        scored_products == SelectSeq(annotated, keep_scored)
    IN  slice_to(sort_reverse(scored_products,
                              [i \in 1..Len(scored_products) |->
                                  personalized_key(scored_products[i])]),
                 lim)

\* the sort key of the anonymous search: eco_score alone
storage_eco_key(x) == <<x.eco_score>>

\* sorted(products, key=lambda x: x['eco_score'], reverse=True)[:limit]
storage_search_anonymous(rows, lim) ==
    slice_to(sort_reverse(rows, [i \in 1..Len(rows) |-> storage_eco_key(rows[i])]), lim)

\* the logged-in branch of get_search_recommendations: every row is scored and kept
storage_search_personalized(rows, user, cart_items, wishlist_items, viewed_products, lim) ==
    LET prefs == storage_extract_user_preferences(cart_items, wishlist_items, viewed_products)
        scored_products == [i \in 1..Len(rows) |->
                              with_score(rows[i],
                                         storage_calculate_personalized_score(rows[i], prefs,
                                                                              user.age, user.gender))]
    IN  slice_to(sort_reverse(scored_products,
                              [i \in 1..Len(scored_products) |->
                                  storage_score_eco_key(scored_products[i])]),
                 lim)

storage_search_personalized_raises(rows, cart_items, wishlist_items, viewed_products) ==
    \/ storage_extract_raises(cart_items, wishlist_items, viewed_products)
    \/ \E i \in 1..Len(rows) : storage_personalized_score_raises(rows[i])

(***************************************************************************)
(* recommendation_service.py: main().  stdin is input_data.valid_json (it  *)
(* parses) and input_data.data (the parsed envelope, keys optional).       *)
(***************************************************************************)
\* the message of the KeyError a missing key raises: str(e)
key_error(k) == [outcome |-> "error", result |-> [error |-> k]]

\* mutant of main_dispatch: an unknown type rejected as a bad request
main_dispatch_strict(data) ==
    LET ud == Get(data, "user_data", <<>>)
        lim == Get(data, "limit", DefaultLimit)
    IN  IF data.type = "cold_start"
        THEN [outcome |-> "ok",
              result |-> get_cold_start_recommendations(data.products,
                             Get(ud, "age", DefaultAge), Get(ud, "gender", "male"), lim)]
        ELSE IF data.type = "personalized"
        THEN [outcome |-> "ok",
              result |-> get_personalized_recommendations(data.products, ud, lim)]
        ELSE [outcome |-> "error", result |-> [error |-> "type"]]

\* the if / elif / else on recommendation_type, then print(json.dumps(...))
main_dispatch(data) ==
    LET ud == Get(data, "user_data", <<>>)
        lim == Get(data, "limit", DefaultLimit)
    IN  IF data.type = "cold_start"
        THEN [outcome |-> "ok",
              result |-> get_cold_start_recommendations(data.products,
                             Get(ud, "age", DefaultAge), Get(ud, "gender", "male"), lim)]
        ELSE IF data.type = "personalized"
        THEN [outcome |-> "ok",
              result |-> get_personalized_recommendations(data.products, ud, lim)]
        ELSE [outcome |-> "ok", result |-> <<>>]

\* mutant of main: the type read with a default, input_data.get('type', 'cold_start')
main_default_type(stdin) ==
    LET data == stdin.data
        typed == [k \in DOMAIN data \cup {"type"} |->
                    IF k \in DOMAIN data THEN data[k] ELSE "cold_start"]
    IN  IF ~stdin.valid_json THEN key_error("json")
        ELSE IF "products" \notin DOMAIN data THEN key_error("products")
        ELSE IF /\ typed.type = "personalized"
                /\ personalized_raises(data.products) THEN key_error("id")
        ELSE main_dispatch(typed)

\* main(): everything the try block raises ends in {'error': str(e)} and exit 1
main(stdin) ==
    LET data == stdin.data
    IN  IF ~stdin.valid_json THEN key_error("json")
        ELSE IF "products" \notin DOMAIN data THEN key_error("products")
        ELSE IF "type" \notin DOMAIN data THEN key_error("type")
        ELSE IF /\ data.type = "personalized"
                /\ personalized_raises(data.products) THEN key_error("id")
        ELSE main_dispatch(data)

(***************************************************************************)
(* The inputs the model draws from.                                        *)
(***************************************************************************)
txt_Electronics == <<"E", "l", "e", "c", "t", "r", "o", "n", "i", "c", "s">>
txt_SolarCharger == <<"S", "o", "l", "a", "r", " ", "C", "h", "a", "r", "g", "e", "r">>
txt_PortableText == <<"p", "o", "r", "t", "a", "b", "l", "e", " ", "t", "r", "a", "v", "e", "l", " ", "c", "h", "a", "r", "g", "e", "r">>
txt_Home == <<"h", "o", "m", "e">>
txt_BambooSet == <<"B", "a", "m", "b", "o", "o", " ", "S", "e", "t">>
txt_KitchenText == <<"M", "o", "d", "e", "r", "n", " ", "f", "a", "m", "i", "l", "y", " ", "k", "i", "t", "c", "h", "e", "n">>
txt_Sports == <<"s", "p", "o", "r", "t", "s">>
txt_TechBand == <<"T", "e", "c", "h", " ", "B", "a", "n", "d">>
txt_Health == <<"h", "e", "a", "l", "t", "h">>
txt_GardenTools == <<"G", "a", "r", "d", "e", "n", " ", "T", "o", "o", "l", "s">>
txt_ComfortText == <<"c", "o", "m", "f", "o", "r", "t", " ", "c", "h", "a", "r", "g", "e", "r">>
txt_Long == <<"a", " ", "b", " ", "c", " ", "d", " ", "e", " ", "f", " ", "g", " ", "h", " ", "i", " ", "j", " ", "k", "i", "t", "c", "h", "e", "n">>

\* the example product of the specification
ProductA == [id |-> 1, category |-> txt_Electronics, title |-> txt_SolarCharger,
             text |-> txt_PortableText, price |-> 40, ecoScore |-> 50]
ProductB == [id |-> 2, category |-> txt_Home, title |-> txt_BambooSet,
             text |-> txt_KitchenText, price |-> 25, ecoScore |-> 75]
\* no text, an eco-score of 0
ProductC == [id |-> 3, category |-> txt_Sports, title |-> txt_TechBand,
             price |-> 20, ecoScore |-> 0]
\* every optional field absent
ProductD == [id |-> 4]
\* another record with the id of ProductA; a price of 0
ProductE == [id |-> 1, category |-> txt_Health, title |-> txt_GardenTools,
             text |-> txt_ComfortText, price |-> 0, ecoScore |-> 25]
\* empty category and title, a text of eleven words, a negative eco-score
ProductF == [id |-> 5, category |-> <<>>, title |-> <<>>,
             text |-> txt_Long, price |-> 10, ecoScore |-> 0 - 10]

Catalogue == {ProductA, ProductB, ProductC, ProductD, ProductE, ProductF}
Candidates == {ProductA, ProductB, ProductC, ProductE}

ItemA == [product |-> ProductA, quantity |-> 1]
ItemE == [product |-> ProductE]
ItemNoProduct == [quantity |-> 2]

CartChoices == {ItemA, ItemNoProduct}
WishlistChoices == {ItemE}
ViewedChoices == {ProductB, ProductF}

Ages == {20, 24, 25, 39, 40}
Genders == {"female", "male", "other"}

\* sequences of length <= n over S
SeqUpTo(S, n) == UNION {[1..k -> S] : k \in 0..n}

\* sequences of length <= n of distinct elements of S
DistinctSeqUpTo(S, n) ==
    {s \in SeqUpTo(S, n) : \A i, j \in 1..Len(s) : i # j => s[i] # s[j]}

\* user ids a caller passes: none, or the id of a shopper
UserIds == {NoUserId, 7}

NoInput == [valid_json |-> FALSE, data |-> <<>>]
NoPreferences == <<>>

(***************************************************************************)
(* Cold-start ranking: both engines on the same catalogue.                 *)
(***************************************************************************)
InitCold ==
    /\ products \in DistinctSeqUpTo(Catalogue, MaxProducts)
    /\ user_data \in [age : Ages, gender : Genders]
    /\ limit \in 0..MaxLimit
    /\ user_id = NoUserId
    /\ user_exists = FALSE
    /\ input_data = NoInput
    /\ op = "none"
    /\ outcome = "none"
    /\ preferences = NoPreferences
    /\ result = <<>>

\* the call has an age and a gender and no activity to read
ColdStartCall == DOMAIN user_data = {"age", "gender"}

\* the call has a user with demographics and the three activity lists
UserCall ==
    DOMAIN user_data = {"age", "gender", "cart_items", "wishlist_items", "viewed_products"}

ServiceColdStart ==
    /\ op = "none"
    /\ ColdStartCall
    /\ op' = "service_cold_start"
    /\ outcome' = "ok"
    /\ result' = get_cold_start_recommendations(products, user_data.age,
                                                user_data.gender, limit)
    /\ UNCHANGED <<products, user_data, user_id, user_exists, limit, input_data,
                   preferences>>

StorageColdStart ==
    /\ op = "none"
    /\ ColdStartCall
    /\ op' = "storage_cold_start"
    /\ LET rows == storage_fetch(storage_rows(products), ColdStartFetch)
       IN  IF storage_cold_start_raises(rows, user_data.age, user_data.gender)
           THEN outcome' = "error" /\ result' = <<>>
           ELSE /\ outcome' = "ok"
                /\ result' = storage_get_cold_start_recommendations(
                                 rows, user_data.age, user_data.gender, limit)
    /\ UNCHANGED <<products, user_data, user_id, user_exists, limit, input_data,
                   preferences>>

NextCold == ServiceColdStart \/ StorageColdStart

SpecCold == InitCold /\ [][NextCold]_vars

(***************************************************************************)
(* Personalised ranking: both engines, the same user and catalogue.        *)
(***************************************************************************)
Demographics == {[age |-> 20, gender |-> "male"], [age |-> 30, gender |-> "female"]}

\* the activity of a user: at most MaxActivity records over the three lists
Activities ==
    {a \in [cart_items : SeqUpTo(CartChoices, MaxActivity),
            wishlist_items : SeqUpTo(WishlistChoices, MaxActivity),
            viewed_products : SeqUpTo(ViewedChoices, MaxActivity)] :
        Len(a.cart_items) + Len(a.wishlist_items) + Len(a.viewed_products) <= MaxActivity}

UserData ==
    {[age |-> d.age, gender |-> d.gender, cart_items |-> a.cart_items,
      wishlist_items |-> a.wishlist_items, viewed_products |-> a.viewed_products] :
        d \in Demographics, a \in Activities}

InitPers ==
    /\ products \in DistinctSeqUpTo(Candidates, MaxProducts)
    /\ user_data \in UserData
    /\ limit \in 0..MaxLimit
    /\ user_id = NoUserId
    /\ user_exists = FALSE
    /\ input_data = NoInput
    /\ op = "none"
    /\ outcome = "none"
    /\ preferences = NoPreferences
    /\ result = <<>>

ServicePersonalized ==
    /\ op = "none"
    /\ UserCall
    /\ op' = "service_personalized"
    /\ IF personalized_raises(products)
       THEN outcome' = "error" /\ result' = <<>> /\ preferences' = NoPreferences
       ELSE /\ outcome' = "ok"
            /\ preferences' = _extract_user_preferences(user_data.cart_items,
                                  user_data.wishlist_items, user_data.viewed_products)
            /\ result' = get_personalized_recommendations(products, user_data, limit)
    /\ UNCHANGED <<products, user_data, user_id, user_exists, limit, input_data>>

\* get_personalized_recommendations(user_id, limit) of the storage-backed engine
StoragePersonalized ==
    /\ op = "none"
    /\ UserCall
    /\ op' = "storage_personalized"
    /\ \E uid \in UserIds \ {NoUserId}, found \in BOOLEAN :
        /\ user_id' = uid
        /\ user_exists' = found
        /\ IF ~found
           THEN outcome' = "ok" /\ result' = <<>> /\ preferences' = NoPreferences
           ELSE LET user == [age |-> user_data.age, gender |-> user_data.gender]
                    cart_items == storage_items(user_data.cart_items)
                    wishlist_items == storage_items(user_data.wishlist_items)
                    viewed_products == storage_fetch(storage_rows(user_data.viewed_products),
                                                     PersonalizedViews)
                    rows == storage_fetch(storage_rows(products), PersonalizedFetch)
                IN  IF storage_personalized_raises(rows, cart_items, wishlist_items,
                                                   viewed_products)
                    THEN outcome' = "error" /\ result' = <<>> /\ preferences' = NoPreferences
                    ELSE /\ outcome' = "ok"
                         /\ preferences' = storage_extract_user_preferences(
                                               cart_items, wishlist_items, viewed_products)
                         /\ result' = storage_rank_personalized(rows, user, cart_items,
                                          wishlist_items, viewed_products, limit)
    /\ UNCHANGED <<products, user_data, limit, input_data>>

NextPers == ServicePersonalized \/ StoragePersonalized

SpecPers == InitPers /\ [][NextPers]_vars

(***************************************************************************)
(* Search ranking of the storage-backed engine.                            *)
(***************************************************************************)
SearchResults == {ProductA, ProductB, ProductD, ProductE}

InitSearch ==
    /\ products \in DistinctSeqUpTo(SearchResults, MaxProducts)
    /\ user_data \in UserData
    /\ limit \in 0..MaxLimit
    /\ user_id = NoUserId
    /\ user_exists = FALSE
    /\ input_data = NoInput
    /\ op = "none"
    /\ outcome = "none"
    /\ preferences = NoPreferences
    /\ result = <<>>

\* what storage.searchProducts(query, limit=limit * 2) returned
SearchFetched == storage_fetch(storage_rows(products), limit * 2)

\* get_search_recommendations(query, user_id, limit)
StorageSearch ==
    /\ op = "none"
    /\ UserCall
    /\ op' = "storage_search"
    /\ \E uid \in UserIds, found \in BOOLEAN :
        /\ user_id' = uid
        /\ user_exists' = found
        /\ LET rows == SearchFetched
           IN  IF uid = NoUserId
               THEN /\ preferences' = NoPreferences
                    /\ IF \E i \in 1..Len(rows) : "eco_score" \notin DOMAIN rows[i]
                       THEN outcome' = "error" /\ result' = <<>>
                       ELSE outcome' = "ok" /\ result' = storage_search_anonymous(rows, limit)
               ELSE IF ~found
               THEN /\ preferences' = NoPreferences
                    /\ outcome' = "ok"
                    /\ result' = slice_to(rows, limit)
               ELSE LET user == [age |-> user_data.age, gender |-> user_data.gender]
                        cart_items == storage_items(user_data.cart_items)
                        wishlist_items == storage_items(user_data.wishlist_items)
                        viewed_products ==
                            storage_fetch(storage_rows(user_data.viewed_products), SearchViews)
                    IN  IF storage_search_personalized_raises(rows, cart_items,
                                                              wishlist_items, viewed_products)
                        THEN outcome' = "error" /\ result' = <<>>
                             /\ preferences' = NoPreferences
                        ELSE /\ outcome' = "ok"
                             /\ preferences' = storage_extract_user_preferences(
                                                   cart_items, wishlist_items, viewed_products)
                             /\ result' = storage_search_personalized(rows, user, cart_items,
                                              wishlist_items, viewed_products, limit)
    /\ UNCHANGED <<products, user_data, limit, input_data>>

NextSearch == StorageSearch

SpecSearch == InitSearch /\ [][NextSearch]_vars

(***************************************************************************)
(* Profile extraction and personalised scoring applied as pure functions:  *)
(* _extract_user_preferences on the user's activity, then                  *)
(* _calculate_personalized_score on every candidate, by each engine.       *)
(***************************************************************************)
txt_SolarRoof == <<"S", "o", "l", "a", "r", " ", "R", "o", "o", "f">>
txt_RoofText == <<"h", "o", "m", "e", " ", "r", "o", "o", "f">>

\* a product priced above the default price range, with an eco-score of 0
ProductG == [id |-> 6, category |-> txt_Home, title |-> txt_SolarRoof,
             text |-> txt_RoofText, price |-> 1500, ecoScore |-> 0]

ProfileCandidates == Candidates \cup {ProductG}
ProfileViewedChoices == ViewedChoices \cup {ProductG}

ProfileActivities ==
    {a \in [cart_items : SeqUpTo(CartChoices, MaxActivity),
            wishlist_items : SeqUpTo(WishlistChoices, MaxActivity),
            viewed_products : SeqUpTo(ProfileViewedChoices, MaxActivity)] :
        Len(a.cart_items) + Len(a.wishlist_items) + Len(a.viewed_products) <= MaxActivity}

ProfileUserData ==
    {[age |-> d.age, gender |-> d.gender, cart_items |-> a.cart_items,
      wishlist_items |-> a.wishlist_items, viewed_products |-> a.viewed_products] :
        d \in Demographics, a \in ProfileActivities}

InitProfile ==
    /\ products \in DistinctSeqUpTo(ProfileCandidates, MaxScored)
    /\ user_data \in ProfileUserData
    /\ limit = 0
    /\ user_id = NoUserId
    /\ user_exists = FALSE
    /\ input_data = NoInput
    /\ op = "none"
    /\ outcome = "none"
    /\ preferences = NoPreferences
    /\ result = <<>>

\* recommendation_service.py: neither function raises
ServiceProfile ==
    /\ op = "none"
    /\ UserCall
    /\ op' = "service_profile"
    /\ outcome' = "ok"
    /\ LET prefs == _extract_user_preferences(user_data.cart_items,
                         user_data.wishlist_items, user_data.viewed_products)
       IN  /\ preferences' = prefs
           /\ result' = [i \in 1..Len(products) |->
                            with_score(products[i],
                                       _calculate_personalized_score(products[i], prefs,
                                           user_data.age, user_data.gender))]
    /\ UNCHANGED <<products, user_data, user_id, user_exists, limit, input_data>>

\* recommendations.py: an activity record or a candidate without an indexed
\* field raises KeyError
StorageProfile ==
    /\ op = "none"
    /\ UserCall
    /\ op' = "storage_profile"
    /\ LET cart_items == storage_items(user_data.cart_items)
           wishlist_items == storage_items(user_data.wishlist_items)
           viewed_products == storage_rows(user_data.viewed_products)
           rows == storage_rows(products)
           prefs == storage_extract_user_preferences(cart_items, wishlist_items,
                                                     viewed_products)
       IN  IF storage_search_personalized_raises(rows, cart_items, wishlist_items,
                                                 viewed_products)
           THEN outcome' = "error" /\ result' = <<>> /\ preferences' = NoPreferences
           ELSE /\ outcome' = "ok"
                /\ preferences' = prefs
                /\ result' = [i \in 1..Len(rows) |->
                                 with_score(rows[i],
                                            storage_calculate_personalized_score(rows[i],
                                                prefs, user_data.age, user_data.gender))]
    /\ UNCHANGED <<products, user_data, user_id, user_exists, limit, input_data>>

NextProfile == ServiceProfile \/ StorageProfile

SpecProfile == InitProfile /\ [][NextProfile]_vars

(***************************************************************************)
(* The service's main(): one request envelope on stdin.                    *)
(***************************************************************************)
RequestTypes == {"cold_start", "personalized", "search", ""}

RequestUsers ==
    {[age |-> 20], [gender |-> "female"],
     [age |-> 45, gender |-> "male", cart_items |-> <<ItemA>>],
     [age |-> 30, wishlist_items |-> <<ItemE>>, viewed_products |-> <<ProductB>>]}

\* a key of the envelope: absent (<<>>) or present with a value (<<v>>)
Optional(S) == {<<>>} \cup {<<v>> : v \in S}

envelope(p, t, u, l) ==
    LET keys == {k \in {"products", "type", "user_data", "limit"} :
                    \/ k = "products" /\ p # <<>>
                    \/ k = "type" /\ t # <<>>
                    \/ k = "user_data" /\ u # <<>>
                    \/ k = "limit" /\ l # <<>>}
    IN  [k \in keys |-> CASE k = "products" -> p[1]
                          [] k = "type" -> t[1]
                          [] k = "user_data" -> u[1]
                          [] k = "limit" -> l[1]]

\* an envelope: any subset of its four keys, each present key with a value
Envelopes ==
    {envelope(p, t, u, l) :
        p \in Optional(DistinctSeqUpTo(Candidates, MaxProducts)),
        t \in Optional(RequestTypes),
        u \in Optional(RequestUsers),
        l \in Optional(0..MaxLimit)}

InitMain ==
    /\ \/ input_data \in [valid_json : {TRUE}, data : Envelopes]
       \/ input_data = NoInput
    /\ products = <<>>
    /\ user_data = <<>>
    /\ limit = 0
    /\ user_id = NoUserId
    /\ user_exists = FALSE
    /\ op = "none"
    /\ outcome = "none"
    /\ preferences = NoPreferences
    /\ result = <<>>

Main ==
    /\ op = "none"
    /\ DOMAIN user_data = {}
    /\ op' = "main"
    /\ outcome' = main(input_data).outcome
    /\ result' = main(input_data).result
    /\ UNCHANGED <<products, user_data, user_id, user_exists, limit, input_data,
                   preferences>>

NextMain == Main

SpecMain == InitMain /\ [][NextMain]_vars

(***************************************************************************)
(* The whole program: every entry point on every input above.              *)
(***************************************************************************)
Init == InitCold \/ InitPers \/ InitSearch \/ InitProfile \/ InitMain

Next == NextCold \/ NextPers \/ NextSearch \/ NextProfile \/ NextMain

Spec == Init /\ [][Next]_vars


(***************************************************************************)
(* Claims about cold-start ranking (checked under SpecCold).               *)
(***************************************************************************)
ColdStartRan == op \in {"service_cold_start", "storage_cold_start"} /\ outcome = "ok"

\* the candidate list the engine that ran has scored, each with its score
ColdStartScored ==
    IF op = "service_cold_start"
    THEN [i \in 1..Len(products) |->
            with_score(products[i],
                       _calculate_demographic_score(products[i], user_data.age,
                                                    user_data.gender))]
    ELSE LET rows == storage_rows(products)
         IN  [i \in 1..Len(rows) |->
                with_score(rows[i],
                           storage_calculate_demographic_score(rows[i], user_data.age,
                                                               user_data.gender))]

PositiveCandidates ==
    {i \in 1..Len(products) : ColdStartScored[i].recommendation_score > 0}

\* the eco-score of a returned entry, 0 when it has none
EcoOf(x) == IF "ecoScore" \in DOMAIN x THEN x.ecoScore ELSE Get(x, "eco_score", 0)

ScoreEco(x) == <<x.recommendation_score, EcoOf(x)>>

Range(s) == {s[i] : i \in 1..Len(s)}

\* C2: the cold-start output is no longer than limit, no longer than the number
\* of candidates whose demographic score is positive, every returned entry has
\* a positive recommendation_score, and no candidates give an empty list.
C2_ColdStartBounded ==
    ColdStartRan =>
        /\ Len(result) <= limit
        /\ Len(result) <= Cardinality(PositiveCandidates)
        /\ \A i \in 1..Len(result) : result[i].recommendation_score > 0
        /\ (products = <<>> => result = <<>>)

\* C2 witness: the service truncated two positive candidates to limit 1 and
\* another candidate scored 0
C2_Witness ==
    /\ op = "service_cold_start"
    /\ limit = 1
    /\ Len(result) = 1
    /\ Cardinality(PositiveCandidates) = 2
    /\ Len(products) = 3

\* C3: the cold-start output descends in (recommendation_score, eco-score),
\* compared lexicographically, and no positive-scored candidate that was left
\* out ranks strictly above a returned one.
C3_ColdStartOrdered ==
    ColdStartRan =>
        /\ \A i \in 1..(Len(result) - 1) :
               ~tuple_gt(ScoreEco(result[i + 1]), ScoreEco(result[i]))
        /\ \A i \in PositiveCandidates :
               ColdStartScored[i] \notin Range(result) =>
                   \A j \in 1..Len(result) :
                       ~tuple_gt(ScoreEco(ColdStartScored[i]), ScoreEco(result[j]))

\* C3 witness: the service returned two entries of equal score whose order was
\* decided by the eco-score against the candidate order, and left one out
C3_Witness ==
    /\ op = "service_cold_start"
    /\ Len(result) = 2
    /\ result[1].recommendation_score = result[2].recommendation_score
    /\ EcoOf(result[1]) > EcoOf(result[2])
    /\ Cardinality(PositiveCandidates) = 3
    /\ \E i, j \in 1..Len(products) :
           i < j /\ products[i].id = result[2].id /\ products[j].id = result[1].id

\* the demographic score as the specification states it: eco-score * 0.6, one
\* age band (+15 category/title or category, +5 text), gender +8
claimed_demographic_score(x, age, gender) ==
    LET category == lower(Get(x, "category", <<>>))
        title == lower(Get(x, "title", <<>>))
        text == lower(Get(x, "text", <<>>))
        in_category_or_title(ks) == \E k \in ks : contains(k, category) \/ contains(k, title)
        in_category(ks) == \E k \in ks : contains(k, category)
        in_text(ks) == \E k \in ks : contains(k, text)
        bonus(b, points) == IF b THEN points * ScoreUnit ELSE 0
        age_bonus ==
            IF age < 25
            THEN bonus(in_category_or_title({kw_electronics, kw_fashion, kw_sports,
                                             kw_tech, kw_gadget}), 15)
                 + bonus(in_text({kw_portable, kw_travel, kw_compact, kw_modern}), 5)
            ELSE IF age < 40
            THEN bonus(in_category({kw_home, kw_kitchen, kw_outdoor, kw_garden}), 15)
                 + bonus(in_text({kw_family, kw_home, kw_kitchen, kw_cooking}), 5)
            ELSE bonus(in_category({kw_health, kw_improvement, kw_garden, kw_wellness}), 15)
                 + bonus(in_text({kw_comfort, kw_health, kw_wellness, kw_garden}), 5)
        gender_bonus ==
            IF gender = "female"
            THEN bonus(in_category_or_title({kw_beauty, kw_fashion, kw_home,
                                             kw_personal_care}), 8)
            ELSE IF gender = "male"
            THEN bonus(in_category_or_title({kw_tools, kw_automotive, kw_sports, kw_tech}), 8)
            ELSE 0
    IN  Max(0, (EcoOf(x) * 6 * ScoreUnit) \div 10 + age_bonus + gender_bonus)

\* C5 (as claimed): whichever engine ranked, every returned entry carries the
\* demographic score of the specification; the example product scores 50 for
\* age 20, gender male.
C5_EveryImplementationScoresAsSpecified ==
    ColdStartRan =>
        \A i \in 1..Len(result) :
            /\ result[i].recommendation_score
                 = claimed_demographic_score(result[i], user_data.age, user_data.gender)
            /\ (result[i].id = ProductA.id /\ result[i].title = ProductA.title
                /\ user_data.age = 20 /\ user_data.gender = "male")
               => result[i].recommendation_score = 50 * ScoreUnit

\* C5, the service alone: recommendation_service.py scores as specified
C5_ServiceScoresAsSpecified ==
    op = "service_cold_start" =>
        \A i \in 1..Len(result) :
            result[i].recommendation_score
              = claimed_demographic_score(result[i], user_data.age, user_data.gender)

\* C8 (as claimed): no ranking ends in an error because a product lacks an
\* optional field; every candidate here is well formed and has its id.
C8_MissingFieldsNeverRaise ==
    op # "none" => outcome = "ok"

(***************************************************************************)
(* Claims about personalised ranking (checked under SpecPers).             *)
(***************************************************************************)
\* a personalised ranking returned a list computed from an extracted profile
PersonalizedRan ==
    /\ outcome = "ok"
    /\ \/ op = "service_personalized"
       \/ op = "storage_personalized" /\ user_exists

\* the ids of the products wrapped by the user's cart and wishlist items
OwnedIds ==
    {item.product.id :
        item \in {it \in Range(user_data.cart_items) \cup Range(user_data.wishlist_items) :
                     "product" \in DOMAIN it /\ "id" \in DOMAIN it.product}}

\* C1: exclusion law: no returned product has the id of a product wrapped by a
\* cart item or a wishlist item, whether or not it is the same record.
C1_ExclusionLaw ==
    (op \in {"service_personalized", "storage_personalized"} /\ outcome = "ok") =>
        \A i \in 1..Len(result) : result[i].id \notin OwnedIds

\* C1 witness: the service ranked a candidate list holding a product that shares
\* its id with a wishlist product but is another record, and returned the rest
C1_Witness ==
    /\ op = "service_personalized"
    /\ result # <<>>
    /\ \E i \in 1..Len(products) :
           /\ products[i].id \in OwnedIds
           /\ \A it \in Range(user_data.cart_items) \cup Range(user_data.wishlist_items) :
                  "product" \in DOMAIN it => it.product # products[i]
           /\ \A j \in 1..Len(result) : result[j].id # products[i].id

EmptyActivity ==
    /\ user_data.cart_items = <<>>
    /\ user_data.wishlist_items = <<>>
    /\ user_data.viewed_products = <<>>

\* C4: with empty cart, wishlist and viewed sequences the extracted profile is
\* the default one: price range [0, 1000], eco threshold 0, no category
\* affinity, no keywords.
C4_EmptyActivityGivesDefaultProfile ==
    (PersonalizedRan /\ EmptyActivity) =>
        /\ preferences.price_range.min = 0
        /\ preferences.price_range.max = 1000 * PriceUnit
        /\ preferences.eco_score_threshold.num = 0
        /\ preferences.eco_score_threshold.den > 0
        /\ DOMAIN preferences.preferred_categories = {}
        /\ Len(preferences.keywords) = 0

\* C4 witness: the service ranked candidates for a user without any activity
C4_Witness ==
    /\ op = "service_personalized"
    /\ EmptyActivity
    /\ result # <<>>

\* the personalised score as the specification states it
claimed_personalized_score(x, prefs, age, gender) ==
    LET category == Get(x, "category", <<>>)
        affinity == IF category \in DOMAIN prefs.preferred_categories
                    THEN prefs.preferred_categories[category] ELSE 0
        price == Get(x, "price", 0) * PriceUnit
        in_range == prefs.price_range.min <= price /\ price <= prefs.price_range.max
        eco_ok == EcoOf(x) * prefs.eco_score_threshold.den >= prefs.eco_score_threshold.num
        text == lower(Get(x, "text", <<>>))
        matches == Cardinality({i \in 1..Len(prefs.keywords) : contains(prefs.keywords[i], text)})
    IN  Max(0, (4 * claimed_demographic_score(x, age, gender)) \div 10
               + 8 * affinity * ScoreUnit
               + (IF in_range THEN 20 * ScoreUnit ELSE 0)
               + (IF eco_ok THEN 15 * ScoreUnit ELSE 0)
               + (15 * matches * ScoreUnit) \div 10)

\* C6 (as claimed): whichever engine ranked, every returned entry carries the
\* personalised score of the specification for the profile that was extracted.
C6_EveryRankingAttachesSpecifiedScore ==
    PersonalizedRan =>
        \A i \in 1..Len(result) :
            result[i].recommendation_score
              = claimed_personalized_score(result[i], preferences, user_data.age,
                                           user_data.gender)

\* C6, the service alone: recommendation_service.py scores as specified
C6_ServiceAttachesSpecifiedScore ==
    (op = "service_personalized" /\ outcome = "ok") =>
        \A i \in 1..Len(result) :
            result[i].recommendation_score
              = claimed_personalized_score(result[i], preferences, user_data.age,
                                           user_data.gender)

\* a returned entry without the score that was attached to it
without_score(x) == [k \in DOMAIN x \ {"recommendation_score"} |-> x[k]]

\* the position in the candidate list of the product a returned entry decorates
CandidateIndex(x) ==
    CHOOSE k \in 1..Len(products) :
        \/ products[k] = without_score(x)
        \/ storage_row(products[k]) = without_score(x)

SameScore(x, y) == x.recommendation_score = y.recommendation_score

\* C11: the personalised output descends in recommendation_score alone and the
\* sort is stable: returned entries of equal score stand in candidate-list
\* order whatever their eco-scores; every returned score is positive and the
\* output is no longer than limit.
C11_PersonalizedOrderedStable ==
    (op \in {"service_personalized", "storage_personalized"} /\ outcome = "ok") =>
        /\ Len(result) <= limit
        /\ \A i \in 1..Len(result) : result[i].recommendation_score > 0
        /\ \A i \in 1..Len(result) :
               \E k \in 1..Len(products) :
                   \/ products[k] = without_score(result[i])
                   \/ storage_row(products[k]) = without_score(result[i])
        /\ \A i, j \in 1..Len(result) :
               i < j =>
                   /\ result[i].recommendation_score >= result[j].recommendation_score
                   /\ SameScore(result[i], result[j]) =>
                          CandidateIndex(result[i]) < CandidateIndex(result[j])

\* C11 witness: a personalised ranking returned two entries of equal score of
\* which the one with the lower eco-score stands first
C11_Witness ==
    /\ PersonalizedRan
    /\ \E i, j \in 1..Len(result) :
           /\ i < j
           /\ SameScore(result[i], result[j])
           /\ EcoOf(result[i]) < EcoOf(result[j])

(***************************************************************************)
(* Claims about the preference profile (checked under SpecProfile).        *)
(***************************************************************************)
\* an engine extracted a profile from the user's activity
ProfileExtracted == op \in {"service_profile", "storage_profile"} /\ outcome = "ok"

\* the activity products: those wrapped by cart and wishlist items, then the
\* viewed products
ActivityPool ==
    LET wraps(item) == "product" \in DOMAIN item
        unwrap(items) == [i \in 1..Len(items) |-> items[i].product]
    IN  unwrap(SelectSeq(user_data.cart_items, wraps))
        \o unwrap(SelectSeq(user_data.wishlist_items, wraps))
        \o user_data.viewed_products

\* the prices of the activity products that have a price, 0 included
PresentPrices == {q.price : q \in {r \in Range(ActivityPool) : "price" \in DOMAIN r}}

\* the prices the truthiness test `if p.get('price')` lets through
NonZeroPrices == PresentPrices \ {0}

\* the profile's price range is [0.8 * min(P), 1.2 * max(P)], or [0, 1000]
\* when P is empty
RangeOver(P) ==
    IF P = {} THEN /\ preferences.price_range.min = 0
                   /\ preferences.price_range.max = 1000 * PriceUnit
    ELSE /\ \E m \in P : /\ \A q \in P : m <= q
                         /\ preferences.price_range.min * 10 = 8 * m * PriceUnit
         /\ \E m \in P : /\ \A q \in P : m >= q
                         /\ preferences.price_range.max * 10 = 12 * m * PriceUnit

\* C12 (as claimed): for a non-empty activity pool the extracted price range is
\* [0.8 * min(P), 1.2 * max(P)] over the prices P of all activity products
\* that have a price, a present price of 0 included; [0, 1000] when P is empty.
C12_RangeOverPresentPrices ==
    (ProfileExtracted /\ ActivityPool # <<>>) => RangeOver(PresentPrices)

\* C12, recommendations.py alone: every price it reads enters the range
C12_StorageRangeOverPresentPrices ==
    (op = "storage_profile" /\ outcome = "ok" /\ ActivityPool # <<>>) =>
        RangeOver(PresentPrices)

\* C12, recommendation_service.py alone: a present price of 0 is left out
C12_ServiceRangeOverNonZeroPrices ==
    (op = "service_profile" /\ ActivityPool # <<>>) => RangeOver(NonZeroPrices)

\* the eco-scores of the activity products that have one, 0 included, in order
PresentEcoScores ==
    LET has_eco(q) == "ecoScore" \in DOMAIN q
        scored == SelectSeq(ActivityPool, has_eco)
    IN  [i \in 1..Len(scored) |-> scored[i].ecoScore]

\* the eco-scores the truthiness test `if p.get('ecoScore')` lets through
NonZeroEcoScores ==
    LET non_zero(e) == e # 0
    IN  SelectSeq(PresentEcoScores, non_zero)

\* the profile's threshold is 0.8 times the arithmetic mean of scores, or 0
\* when there are none
ThresholdOver(scores) ==
    IF scores = <<>> THEN preferences.eco_score_threshold.num = 0
    ELSE preferences.eco_score_threshold.num * 10 * Len(scores)
           = 8 * sum_seq(scores) * preferences.eco_score_threshold.den

\* C13 (as claimed): for a non-empty activity pool the extracted eco-score
\* threshold is 0.8 times the arithmetic mean of the eco-scores of all activity
\* products that have one, a present eco-score of 0 counting in the sum and in
\* the divisor.
C13_ThresholdOverPresentEcoScores ==
    (ProfileExtracted /\ ActivityPool # <<>>) => ThresholdOver(PresentEcoScores)

\* C13, recommendations.py alone: every eco-score it reads enters the mean
C13_StorageThresholdOverPresentEcoScores ==
    (op = "storage_profile" /\ outcome = "ok" /\ ActivityPool # <<>>) =>
        ThresholdOver(PresentEcoScores)

\* C13, recommendation_service.py alone: a present eco-score of 0 is left out
C13_ServiceThresholdOverNonZeroEcoScores ==
    (op = "service_profile" /\ ActivityPool # <<>>) => ThresholdOver(NonZeroEcoScores)

\* the score the no-op profile is claimed to give: 0.4 * demographic + 35
claimed_no_op_score(x, age, gender) ==
    (4 * claimed_demographic_score(x, age, gender)) \div 10 + 35 * ScoreUnit

NonNegative(x) == Get(x, "price", 0) >= 0 /\ EcoOf(x) >= 0

\* C14 (as claimed): with the profile of an empty activity set every product of
\* non-negative price and eco-score scores 0.4 * demographic + 35, whatever its
\* price, so products of equal demographic score get equal personalised scores.
C14_EmptyProfileIsNoOp ==
    (op = "service_profile" /\ EmptyActivity) =>
        /\ \A i \in 1..Len(result) :
               NonNegative(result[i]) =>
                   result[i].recommendation_score
                     = claimed_no_op_score(result[i], user_data.age, user_data.gender)
        /\ \A i, j \in 1..Len(result) :
               (/\ NonNegative(result[i]) /\ NonNegative(result[j])
                /\ claimed_demographic_score(result[i], user_data.age, user_data.gender)
                     = claimed_demographic_score(result[j], user_data.age, user_data.gender))
               => SameScore(result[i], result[j])

\* C14, within the default range: a product priced from 0 to 1000 scores
\* 0.4 * demographic + 35 with the profile of an empty activity set
C14_EmptyProfileIsNoOpUpTo1000 ==
    (op = "service_profile" /\ EmptyActivity) =>
        \A i \in 1..Len(result) :
            (NonNegative(result[i]) /\ Get(result[i], "price", 0) <= 1000) =>
                result[i].recommendation_score
                  = claimed_no_op_score(result[i], user_data.age, user_data.gender)

(***************************************************************************)
(* Claims about search ranking (checked under SpecSearch).                 *)
(***************************************************************************)
SortedByEco(s) == \A i \in 1..(Len(s) - 1) : EcoOf(s[i]) >= EcoOf(s[i + 1])

\* s is the first n entries of rows in descending eco-score order
TopByEco(s, rows, n) ==
    /\ Len(s) = Min(n, Len(rows))
    /\ SortedByEco(s)
    /\ Range(s) \subseteq Range(rows)
    /\ \A r \in Range(rows) \ Range(s) : \A i \in 1..Len(s) : EcoOf(r) <= EcoOf(s[i])

\* C7 (as claimed): a search without a resolvable user (no user id, or an id
\* the storage has no user for) returns the query results in descending
\* eco-score order, cut to limit, none removed.
C7_SearchWithoutUserSortsByEco ==
    (op = "storage_search" /\ outcome = "ok" /\ (user_id = NoUserId \/ ~user_exists)) =>
        TopByEco(result, SearchFetched, limit)

\* C7, the anonymous branch alone: without a user id the results are sorted
C7_AnonymousSearchSortsByEco ==
    (op = "storage_search" /\ outcome = "ok" /\ user_id = NoUserId) =>
        TopByEco(result, SearchFetched, limit)

\* every entry of s carries a personalised score, and s is the first n of rows
\* in descending (recommendation_score, eco_score) order, none left out for
\* being owned or for scoring 0
TopByScoreThenEco(s, rows, n) ==
    /\ Len(s) = Min(n, Len(rows))
    /\ \A i \in 1..Len(s) : "recommendation_score" \in DOMAIN s[i]
    /\ \A i \in 1..Len(s) :
           /\ without_score(s[i]) \in Range(rows)
           /\ s[i].recommendation_score
                = storage_calculate_personalized_score(without_score(s[i]), preferences,
                                                       user_data.age, user_data.gender)
    /\ \A i, j \in 1..Len(s) :
           i < j => (ScoreEco(s[i]) = ScoreEco(s[j]) \/ tuple_gt(ScoreEco(s[i]), ScoreEco(s[j])))
    /\ \A r \in Range(rows) \ {without_score(s[i]) : i \in 1..Len(s)} :
           \A i \in 1..Len(s) :
               LET scored == with_score(r, storage_calculate_personalized_score(
                                               r, preferences, user_data.age, user_data.gender))
               IN  ~tuple_gt(ScoreEco(scored), ScoreEco(s[i]))

\* C15 (as claimed): a search with a user id supplied returns the first limit
\* query results in descending (recommendation_score, eco_score) order, every
\* result scored and none dropped, on every path, the one where the storage has
\* no user for the id included.
C15_SearchWithUserIdRanksByScore ==
    (op = "storage_search" /\ outcome = "ok" /\ user_id # NoUserId) =>
        TopByScoreThenEco(result, SearchFetched, limit)

\* C15, the path of a user the storage finds: the results are scored and ranked
C15_SearchOfFoundUserRanksByScore ==
    (op = "storage_search" /\ outcome = "ok" /\ user_id # NoUserId /\ user_exists) =>
        TopByScoreThenEco(result, SearchFetched, limit)

(***************************************************************************)
(* Claims about the request envelope (checked under SpecMain).             *)
(***************************************************************************)
KnownTypes == {"cold_start", "personalized"}

HasKey(k) == k \in DOMAIN input_data.data

UnknownType == HasKey("type") /\ input_data.data.type \notin KnownTypes

ErrorOutcome == outcome = "error" /\ DOMAIN result = {"error"}

\* C9: an envelope with products and a type that is neither cold_start nor
\* personalized ends on the success path with an empty list.
C9_UnknownTypeGivesEmptyList ==
    (op = "main" /\ HasKey("products") /\ UnknownType) =>
        (outcome = "ok" /\ Len(result) = 0)

\* C9 witness: main ran on candidates with the type "search"
C9_Witness ==
    /\ op = "main"
    /\ HasKey("products")
    /\ HasKey("type")
    /\ input_data.data.type = "search"
    /\ input_data.data.products # <<>>
    /\ outcome = "ok"

\* C10 (as claimed): an envelope missing products, or with an unknown type,
\* ends in the error outcome {error: string} and emits no list.
C10_MalformedIncludesUnknownType ==
    (op = "main" /\ (~HasKey("products") \/ UnknownType)) => ErrorOutcome

\* C10 (amended): an envelope missing products, or missing type, ends in the
\* error outcome {error: string}, which is not the empty-list success outcome,
\* and emits no list.
C10_MissingKeyIsError ==
    (op = "main" /\ (~HasKey("products") \/ ~HasKey("type"))) =>
        (ErrorOutcome /\ outcome # "ok")

\* C10 witness: main ran on an envelope with candidates and no type
C10_Witness ==
    /\ op = "main"
    /\ input_data.valid_json
    /\ HasKey("products")
    /\ input_data.data.products # <<>>
    /\ ~HasKey("type")
    /\ outcome = "error"
    /\ result.error = "type"

====
